---------------------------- MODULE Spec2Model ----------------------------
(***************************************************************************)
(* Arcula: a deterministic hierarchical key assignment scheme (DHKA) and   *)
(* the hierarchical deterministic wallet built on it.                      *)
(*                                                                         *)
(* Byte strings are sequences of chunks.  A chunk is a record              *)
(* [t, n, a]: a run of literal bytes ("b1": one byte, "b8": eight bytes,   *)
(* n the big-endian value of the run), a 32-byte block of entropy ("e", n  *)
(* its name), or the output of a primitive applied to the byte string a    *)
(* ("sha3", "sk", "vk", "x", "parity", "der", "gcm", "rand").  Primitives  *)
(* are symbolic: two outputs are equal exactly when the primitive and its  *)
(* inputs are equal.                                                       *)
(***************************************************************************)
EXTENDS Integers, Sequences, FiniteSets, TLC

(***************************************************************************)
(* Bounds of the model.                                                    *)
(***************************************************************************)
MaxNodes == 4
MaxExtra == 1
MaxId == 1
MaxBlock == 2
MaxSeedBlocks == 2
MaxTape == 2
MaxBuilds == 2
MaxCalls == 2
MaxRecallNodes == 3
MaxCoins == 2
MaxAccounts == 2
MaxCount == 2

(***************************************************************************)
(* Byte strings.                                                           *)
(***************************************************************************)
Chunk(t, n, a) == [t |-> t, n |-> n, a |-> a]

\* one literal byte of value n
B(n) == Chunk("b1", n, <<>>)

E(k) == Chunk("e", k, <<>>)

None == << Chunk("None", 0, <<>>) >>

ChunkLen(c) ==
    CASE c.t = "b1" -> 1
      [] c.t = "b8" -> 8
      [] c.t = "e" -> 32
      [] c.t = "sha3" -> 32
      [] c.t = "x" -> 32
      [] c.t = "parity" -> 1
      [] c.t = "rand" -> 12
      [] OTHER -> 0

RECURSIVE ByteLen(_)
ByteLen(s) == IF s = <<>> THEN 0 ELSE ChunkLen(Head(s)) + ByteLen(Tail(s))

\* s[:n], for n on a chunk boundary of s
RECURSIVE Take(_, _)
Take(s, n) ==
    IF n <= 0 \/ s = <<>> THEN <<>>
    ELSE <<Head(s)>> \o Take(Tail(s), n - ChunkLen(Head(s)))

\* Mutant: the slice is taken from the front, s[:n].
Drop_Front(s, n) == Take(s, n)

\* s[n:], for n on a chunk boundary of s
RECURSIVE Drop(_, _)
Drop(s, n) ==
    IF n <= 0 \/ s = <<>> THEN s
    ELSE Drop(Tail(s), n - ChunkLen(Head(s)))

(***************************************************************************)
(* constants.py                                                            *)
(***************************************************************************)
PRF_ENCRYPTION_PREFIX == << B(0) >>

PRF_PRIVATE_KEY_PREFIX == << B(1) >>

PRF_EDGE_PREFIX == << B(2) >>

PRF_SECRET_PREFIX == << B(3) >>

(***************************************************************************)
(* encode.py                                                               *)
(***************************************************************************)
\* k.to_bytes(8, byteorder='big'): the run of 8 bytes of big-endian value k
int_to_bytes_8(k) == << Chunk("b8", k, <<>>) >>

\* the 33-byte compressed form of the point of a verifying key: parity, x
verification_key_to_bytes_33(pk) ==
    << Chunk("parity", 0, pk), Chunk("x", 0, pk) >>

(***************************************************************************)
(* crypto.py                                                               *)
(***************************************************************************)
\* the 64-byte digest, as its two halves
sha3_512(m) == << Chunk("sha3", 1, m), Chunk("sha3", 2, m) >>

sha3_512_half(m) == Take(sha3_512(m), ByteLen(sha3_512(m)) \div 2)

sha3_512_half_k(k, m) == sha3_512_half(k \o m)

\* (nonce, cipher) of AES-GCM; nonce is the draw of secrets.token_bytes(12)
aes_ae(k, m, nonce) == << nonce, << Chunk("gcm", 0, k \o nonce \o m) >> >>

InvalidTag == << Chunk("InvalidTag", 0, <<>>) >>

\* AESGCM(k).decrypt(nonce, cipher, None): the plaintext when the key and the
\* nonce are the ones the cipher was made with, an authentication failure otherwise
aes_ad(k, c) ==
    LET nonce == c[1]
        body == c[2][1].a
    IN  IF /\ c[2][1].t = "gcm"
           /\ Len(body) >= Len(k) + Len(nonce)
           /\ SubSeq(body, 1, Len(k)) = k
           /\ SubSeq(body, Len(k) + 1, Len(k) + Len(nonce)) = nonce
        THEN SubSeq(body, Len(k) + Len(nonce) + 1, Len(body))
        ELSE InvalidTag

\* SigningKey.from_secret_exponent(randrange_from_seed__trytryagain(seed, order))
ecdsa_keygen(seed) == << Chunk("sk", 0, seed) >>

get_verifying_key(sk) == << Chunk("vk", 0, sk[1].a) >>

\* k.sign(message, hashfunc=sha256, sigencode=sigencode_der_canonize): the
\* signature depends on the key, the message and the fresh random scalar drawn
ecdsa_sign(k, message, entropy) ==
    << Chunk("der", Len(message), k \o entropy \o message) >>

\* VerifyingKey.verify(signature, message, hashfunc=sha256, sigdecode=sigdecode_der)
ecdsa_verify(pk, signature, message) ==
    /\ Len(signature) = 1
    /\ signature[1].t = "der"
    /\ Len(signature[1].a) = Len(message) + 2
    /\ get_verifying_key(SubSeq(signature[1].a, 1, 1)) = pk
    /\ SubSeq(signature[1].a, 3, Len(signature[1].a)) = message


(***************************************************************************)
(* hierarchy.py: the node objects and the hierarchies a caller can build.  *)
(* Node objects are 1..MaxNodes and the root of the hierarchy is object 1. *)
(* A hierarchy is an ordered tree over the objects 1..n, numbered          *)
(* breadth-first, with up to MaxExtra further entries inserted in the      *)
(* child lists (a second parent, a repeated child, a cycle).               *)
(***************************************************************************)
Nodes == 1..MaxNodes

root == 1

Ids == 0..MaxId

RECURSIVE SortedSeq(_)
SortedSeq(S) ==
    IF S = {} THEN <<>>
    ELSE LET m == CHOOSE x \in S : \A y \in S : x <= y
         IN  <<m>> \o SortedSeq(S \ {m})

\* parent vectors of the ordered trees over 1..n in breadth-first numbering
ParentVectors(n) ==
    { par \in [2..n -> 1..n] :
        \A k \in 2..n : /\ par[k] < k
                        /\ k > 2 => par[k - 1] <= par[k] }

TreeEdges(n, par) ==
    [p \in Nodes |-> SortedSeq({k \in 2..n : par[k] = p})]

InsertAt(list, pos, x) ==
    SubSeq(list, 1, pos - 1) \o <<x>> \o SubSeq(list, pos, Len(list))

Fits(g, pe) == pe[3] <= Len(g[pe[1]]) + 1

RECURSIVE Hierarchies(_, _)
Hierarchies(n, k) ==
    IF k = 0 THEN { TreeEdges(n, par) : par \in ParentVectors(n) }
    ELSE LET G == Hierarchies(n, k - 1)
         IN  G \cup { [gp[1] EXCEPT ![gp[2][1]] =
                          InsertAt(gp[1][gp[2][1]], gp[2][3], gp[2][2])] :
                        gp \in { x \in G \X ((1..n) \X (1..n) \X (1..n + k)) :
                                   Fits(x[1], x[2]) } }

\* the hierarchies over at most MaxNodes node objects
AllHierarchies ==
    UNION { { [n |-> n, edges |-> g] : g \in Hierarchies(n, MaxExtra) } :
              n \in 1..MaxNodes }

\* the nodes reachable from the root in at most k steps
RECURSIVE ReachableIn(_, _)
ReachableIn(g, k) ==
    IF k = 0 THEN {root}
    ELSE LET R == ReachableIn(g, k - 1)
         IN  R \cup UNION { { g[p][j] : j \in 1..Len(g[p]) } : p \in R }

Reachable(g) == ReachableIn(g, MaxNodes)

\* the nodes below v: reachable from v in one step or more
RECURSIVE BelowIn(_, _, _)
BelowIn(g, v, k) ==
    LET C(S) == UNION { { g[p][j] : j \in 1..Len(g[p]) } : p \in S }
    IN  IF k = 1 THEN C({v})
        ELSE LET R == BelowIn(g, v, k - 1) IN R \cup C(R)

Below(g, v) == BelowIn(g, v, MaxNodes)

\* the places (parent, index) of the child lists that hold node v
Places(g, v) ==
    { pj \in Reachable(g) \X (1..MaxNodes + MaxExtra) :
        pj[2] <= Len(g[pj[1]]) /\ g[pj[1]][pj[2]] = v }

\* every node except the root has exactly one parent, the root has none
IsTree(g) ==
    \A v \in Reachable(g) :
        Cardinality(Places(g, v)) = IF v = root THEN 0 ELSE 1

\* Mutant: the ids of all the nodes of the hierarchy are compared, not those of
\* the children of p.
SiblingIdsDistinct_AllNodes(g, ids, p) ==
    Cardinality({ ids[v] : v \in Reachable(g) }) = Cardinality(Reachable(g))

\* Mutant: the ids compared are those of p and its siblings: a collision among
\* the children of a node is found when the first of them is visited.
SiblingIdsDistinct_AtChild(g, ids, p) ==
    \A pj \in Places(g, p) :
        Cardinality({ ids[g[pj[1]][j]] : j \in 1..Len(g[pj[1]]) }) = Len(g[pj[1]])

\* Mutant: the children are compared as objects, not by id.
SiblingIdsDistinct_ByObject(g, ids, p) ==
    Cardinality({ g[p][j] : j \in 1..Len(g[p]) }) = Len(g[p])

\* len(set(e.id for e in u.edges)) == len(u.edges)
SiblingIdsDistinct(g, ids, p) ==
    Cardinality({ ids[g[p][j]] : j \in 1..Len(g[p]) }) = Len(g[p])

(***************************************************************************)
(* The state: one hierarchy object (class DHKA or Arcula) over the node    *)
(* objects, the fields of the nodes, the locals of the keygen call in      *)
(* progress, and the operating system's entropy source.                    *)
(***************************************************************************)
VARIABLES
    size,                    \* number of node objects of the hierarchy
    edges,                   \* Node.edges
    id,                      \* Node.id
    cls,                     \* class of the hierarchy: "DHKA" or "Arcula"
    label,                   \* DHKANode._label
    secret,                  \* DHKANode._secret
    encryption_key,          \* DHKANode._encryption_key
    key,                     \* Node._key
    encrypted_edges,         \* DHKANode.encrypted_edges
    signing_key,             \* ArculaNode._signing_key
    certificate,             \* ArculaNode.certificate
    cold_storage_public_key, \* Arcula.cold_storage_public_key
    pc,                      \* position of the keygen call
    error,                   \* the assertion that stopped the call
    seed,                    \* argument of the keygen call
    q,                       \* local q
    visited,                 \* local visited
    u,                       \* local u
    i,                       \* local i, index of the edge the for loop is at
    cold_storage_key,        \* local cold_storage_key
    tape,                    \* entropy source: the stream this call draws from
    draws,                   \* entropy source: number of draws of this call
    calls,                   \* number of keygen calls made so far
    edge_child,              \* per node, the child each appended cipher was made for
    dequeues,                \* per node, how often DHKA.keygen dequeued it
    builds,                  \* number of hierarchies built so far
    prev                     \* outcome of keygen on the hierarchy built before

(***************************************************************************)
(* The state of a caller of bip44.py: the config it passes to bip44_tree,  *)
(* the tree it gets, the path it looks up and the node it gets.            *)
(***************************************************************************)
VARIABLES
    config,                  \* argument of bip44_tree
    master,                  \* the tree bip44_tree returned
    path,                    \* argument of find_bip44_node_with_path
    found,                   \* the node find_bip44_node_with_path returned
    bip_pc,                  \* position of the caller
    bip_error                \* the exception that stopped the last call

bip44Vars == <<config, master, path, found, bip_pc, bip_error>>

nodeVars == <<label, secret, encryption_key, key, encrypted_edges>>

arculaVars == <<signing_key, certificate, cold_storage_public_key, cold_storage_key>>

hierarchyVars == <<size, edges, id, cls>>

localVars == <<q, visited, u, i>>

histVars == <<edge_child, dequeues, builds, prev>>

vars == <<hierarchyVars, nodeVars, arculaVars, localVars, histVars,
          pc, error, seed, tape, draws, calls, bip44Vars>>

\* a tree of node objects 1..n: child lists, ids and tags in creation order
EmptyTree == [n |-> 0, edges |-> <<>>, id |-> <<>>, tag |-> <<>>]

\* a path: the characters before the first '/' and the components after it
NoPath == [prefix |-> "", comps |-> <<>>]

\* the caller makes no use of bip44.py
NoBIP44 ==
    /\ config = <<>>
    /\ master = EmptyTree
    /\ path = NoPath
    /\ found = 0
    /\ bip_pc = "off"
    /\ bip_error = ""

NoCertificate == [sig |-> None, pk |-> None, id |-> None]

Blocks == { E(k) : k \in 1..MaxBlock }

Seeds == UNION { [1..l -> Blocks] : l \in 0..MaxSeedBlocks }

\* The streams of the entropy source are named in the order of their first use:
\* the k-th call draws from one of the first k streams.
Tapes == { t \in 1..MaxTape : t <= calls + 1 }

\* secrets.token_bytes / the random scalar of a signature: the d-th draw of a call
Draw(t, d) == << Chunk("rand", d, << B(t) >>) >>

NotATree == "The poset is not a tree."

LengthMismatch == "len(u.encrypted_edges) == len(u.edges)"

SiblingIds == "len(set(e.id for e in u.edges)) == len(u.edges)"

SeedLength == "len(seed) == 512 // 8"

Snapshot ==
    [pc |-> pc, error |-> error, seed |-> seed, secret |-> secret,
     encryption_key |-> encryption_key, key |-> key, label |-> label,
     signing_key |-> signing_key, certificate |-> certificate,
     cold_storage_public_key |-> cold_storage_public_key,
     encrypted_edges |-> encrypted_edges]

\* Node.__init__, DHKANode.__init__, ArculaNode.__init__, Arcula.__init__
FreshFields ==
    /\ label = [v \in Nodes |-> None]
    /\ secret = [v \in Nodes |-> None]
    /\ encryption_key = [v \in Nodes |-> None]
    /\ key = [v \in Nodes |-> None]
    /\ encrypted_edges = [v \in Nodes |-> <<>>]
    /\ signing_key = [v \in Nodes |-> None]
    /\ certificate = [v \in Nodes |-> NoCertificate]
    /\ cold_storage_public_key = None
    /\ edge_child = [v \in Nodes |-> <<>>]
    /\ dequeues = [v \in Nodes |-> 0]

NoCall ==
    /\ pc = "idle"
    /\ error = ""
    /\ seed = <<>>
    /\ q = <<>>
    /\ visited = {}
    /\ u = root
    /\ i = 1
    /\ cold_storage_key = None
    /\ tape = 1
    /\ draws = 0

Init ==
    /\ \E h \in AllHierarchies :
          /\ size = h.n
          /\ edges = h.edges
    /\ id \in { f \in [Nodes -> Ids] : \A v \in Nodes : v > size => f[v] = 0 }
    /\ cls \in {"DHKA", "Arcula"}
    /\ FreshFields
    /\ NoCall
    /\ calls = 0
    /\ builds = 1
    /\ prev = Snapshot
    /\ NoBIP44

(***************************************************************************)
(* dhka.py                                                                 *)
(***************************************************************************)
\* Mutant: the secret of a node is derived without its identifier.
_label_secret_encryption_key_from_parent_NoLabel(parent_secret, identifier) ==
    LET l == int_to_bytes_8(identifier)
        s == sha3_512_half_k(parent_secret, PRF_SECRET_PREFIX)
    IN  << l,
           s,
           sha3_512_half_k(s, PRF_ENCRYPTION_PREFIX),
           sha3_512_half_k(s, PRF_PRIVATE_KEY_PREFIX) >>

\* Mutant: the private key is derived with the prefix of the encryption key.
_label_secret_encryption_key_from_parent_SamePrefix(parent_secret, identifier) ==
    LET l == int_to_bytes_8(identifier)
        s == sha3_512_half_k(parent_secret, PRF_SECRET_PREFIX \o l)
    IN  << l,
           s,
           sha3_512_half_k(s, PRF_ENCRYPTION_PREFIX \o l),
           sha3_512_half_k(s, PRF_ENCRYPTION_PREFIX \o l) >>

\* Mutant: the private key of a node is its secret.
_label_secret_encryption_key_from_parent_KeyIsSecret(parent_secret, identifier) ==
    LET l == int_to_bytes_8(identifier)
        s == sha3_512_half_k(parent_secret, PRF_SECRET_PREFIX \o l)
    IN  << l, s, sha3_512_half_k(s, PRF_ENCRYPTION_PREFIX \o l), s >>

\* <<label, secret, encryption_key, private_key>> of a node
_label_secret_encryption_key_from_parent(parent_secret, identifier) ==
    LET l == int_to_bytes_8(identifier)
        s == sha3_512_half_k(parent_secret, PRF_SECRET_PREFIX \o l)
    IN  << l,
           s,
           sha3_512_half_k(s, PRF_ENCRYPTION_PREFIX \o l),
           sha3_512_half_k(s, PRF_PRIVATE_KEY_PREFIX \o l) >>

\* Mutant: the edge key is derived from the label alone.
_edge_encryption_key_NoParent(parent_encryption_key, child_label) ==
    sha3_512_half_k(PRF_EDGE_PREFIX, child_label)

_edge_encryption_key(parent_encryption_key, child_label) ==
    sha3_512_half_k(parent_encryption_key, PRF_EDGE_PREFIX \o child_label)

_encrypt_edge(edge_encryption_key, message, nonce) ==
    aes_ae(edge_encryption_key, message, nonce)

\* Mutant: the cipher is put at the front of the list.
AppendEdge_Front(list, x) == << x >> \o list

\* u.encrypted_edges.append(edge_encryption)
AppendEdge(list, x) == Append(list, x)

\* `v in visited` of the for loop
AlreadyVisited(v) == v \in visited

Fail(reason) ==
    /\ pc' = "failed"
    /\ error' = reason

\* Mutant: the root is queued without its tuple being written.
DHKAStart_QueueOnly(s) ==
    /\ q' = << root >>
    /\ visited' = {}
    /\ pc' = "dhka_while"
    /\ UNCHANGED <<nodeVars, u, i, error>>

\* DHKA.keygen up to the while loop: the root's tuple, q = [root], visited = set()
DHKAStart(s) ==
    LET t == _label_secret_encryption_key_from_parent(s, id[root])
    IN  /\ label' = [label EXCEPT ![root] = t[1]]
        /\ secret' = [secret EXCEPT ![root] = t[2]]
        /\ encryption_key' = [encryption_key EXCEPT ![root] = t[3]]
        /\ key' = [key EXCEPT ![root] = t[4]]
        /\ q' = << root >>
        /\ visited' = {}
        /\ pc' = "dhka_while"
        /\ UNCHANGED <<encrypted_edges, u, i, error>>

\* a caller calls DHKA.keygen(seed) on a hierarchy of class DHKA
DHKAKeygen(s, t) ==
    /\ pc = "idle"
    /\ cls = "DHKA"
    /\ seed' = s
    /\ tape' = t
    /\ draws' = 0
    /\ calls' = calls + 1
    /\ DHKAStart(s)
    /\ UNCHANGED <<bip44Vars, hierarchyVars, arculaVars, histVars>>

\* Mutant: the cold storage keys are set up before super().keygen is called.
ArculaKeygen_KeysFirst(s, t) ==
    /\ pc = "idle"
    /\ cls = "Arcula"
    /\ seed' = s
    /\ tape' = t
    /\ draws' = 0
    /\ calls' = calls + 1
    /\ IF ByteLen(s) = 512 \div 8
       THEN /\ cold_storage_key' = ecdsa_keygen(Drop(s, 256 \div 8))
            /\ cold_storage_public_key' = get_verifying_key(cold_storage_key')
            /\ DHKAStart(Take(s, 256 \div 8))
       ELSE /\ Fail(SeedLength)
            /\ UNCHANGED <<nodeVars, localVars, cold_storage_key,
                           cold_storage_public_key>>
    /\ UNCHANGED <<bip44Vars, hierarchyVars, signing_key, certificate, histVars>>

\* Mutant: Arcula.keygen without its length assertion.
ArculaKeygen_NoCheck(s, t) ==
    /\ pc = "idle"
    /\ cls = "Arcula"
    /\ seed' = s
    /\ tape' = t
    /\ draws' = 0
    /\ calls' = calls + 1
    /\ DHKAStart(Take(s, 256 \div 8))
    /\ UNCHANGED <<bip44Vars, hierarchyVars, arculaVars, histVars>>

\* a caller calls Arcula.keygen(seed): the length assertion, then super().keygen
ArculaKeygen(s, t) ==
    /\ pc = "idle"
    /\ cls = "Arcula"
    /\ seed' = s
    /\ tape' = t
    /\ draws' = 0
    /\ calls' = calls + 1
    /\ IF ByteLen(s) = 512 \div 8
       THEN DHKAStart(Take(s, 256 \div 8))
       ELSE /\ Fail(SeedLength)
            /\ UNCHANGED <<nodeVars, localVars>>
    /\ UNCHANGED <<bip44Vars, hierarchyVars, arculaVars, histVars>>

\* while q: u = q.pop(0); visited.add(u)
DHKAPop ==
    /\ pc = "dhka_while"
    /\ q # <<>>
    /\ u' = Head(q)
    /\ q' = Tail(q)
    /\ visited' = visited \cup {Head(q)}
    /\ i' = 1
    /\ pc' = "dhka_for"
    /\ dequeues' = [dequeues EXCEPT ![Head(q)] = @ + 1]
    /\ UNCHANGED <<bip44Vars, hierarchyVars, nodeVars, arculaVars, error, seed, tape, draws,
                   calls, edge_child, builds, prev>>

\* one pass of `for i, v in enumerate(u.edges)`
DHKAEdge ==
    /\ pc = "dhka_for"
    /\ i <= Len(edges[u])
    /\ LET v == edges[u][i]
           t == _label_secret_encryption_key_from_parent(secret[u], id[v])
       IN  IF AlreadyVisited(v)
           THEN /\ Fail(NotATree)
                /\ UNCHANGED <<nodeVars, q, i, draws, edge_child>>
           ELSE /\ q' = Append(q, v)
                /\ label' = [label EXCEPT ![v] = t[1]]
                /\ secret' = [secret EXCEPT ![v] = t[2]]
                /\ encryption_key' = [encryption_key EXCEPT ![v] = t[3]]
                /\ key' = [key EXCEPT ![v] = t[4]]
                /\ encrypted_edges' =
                      [encrypted_edges EXCEPT ![u] =
                          AppendEdge(@,
                              _encrypt_edge(
                                  _edge_encryption_key(encryption_key'[u], label'[v]),
                                  encryption_key'[v] \o key'[v],
                                  Draw(tape, draws + 1)))]
                /\ edge_child' = [edge_child EXCEPT ![u] = AppendEdge(@, v)]
                /\ draws' = draws + 1
                /\ i' = i + 1
                /\ UNCHANGED <<pc, error>>
    /\ UNCHANGED <<bip44Vars, hierarchyVars, arculaVars, visited, u, seed, tape,
                   calls, dequeues, builds, prev>>

\* the for loop is over: assert len(u.encrypted_edges) == len(u.edges)
DHKAEndFor ==
    /\ pc = "dhka_for"
    /\ i > Len(edges[u])
    /\ IF Len(encrypted_edges[u]) = Len(edges[u])
       THEN pc' = "dhka_while" /\ UNCHANGED error
       ELSE Fail(LengthMismatch)
    /\ UNCHANGED <<bip44Vars, hierarchyVars, nodeVars, arculaVars, localVars, histVars,
                   seed, tape, draws, calls>>

\* the queue is empty: DHKA.keygen returns to its caller
DHKAReturn ==
    /\ pc = "dhka_while"
    /\ q = <<>>
    /\ cls = "DHKA"
    /\ pc' = "done"
    /\ UNCHANGED <<bip44Vars, hierarchyVars, nodeVars, arculaVars, localVars, histVars,
                   error, seed, tape, draws, calls>>

(***************************************************************************)
(* arcula.py                                                               *)
(***************************************************************************)
\* Mutant: the cold storage key is generated from the entropy source of the
\* process, not from the seed.
_cold_storage_keys_Generate(s) == << Chunk("sk", 0, Draw(tape, draws)) >>

_cold_storage_keys(s) == ecdsa_keygen(s)

\* Mutant: the message signed is the identifier followed by the key.
_create_certificate_IdFirst(cold_key, public_signing_key, identifier, entropy) ==
    LET pk33 == verification_key_to_bytes_33(public_signing_key)
        id8 == int_to_bytes_8(identifier)
    IN  [sig |-> ecdsa_sign(cold_key, id8 \o pk33, entropy),
         pk |-> pk33,
         id |-> id8]

\* (signature, (public_signing_key, identifier))
_create_certificate(cold_key, public_signing_key, identifier, entropy) ==
    LET pk33 == verification_key_to_bytes_33(public_signing_key)
        id8 == int_to_bytes_8(identifier)
    IN  [sig |-> ecdsa_sign(cold_key, pk33 \o id8, entropy),
         pk |-> pk33,
         id |-> id8]

\* the children of p that `for v in u.edges: if v not in visited` appends
RECURSIVE Unvisited(_, _)
Unvisited(list, seen) ==
    IF list = <<>> THEN <<>>
    ELSE (IF Head(list) \in seen THEN <<>> ELSE << Head(list) >>)
            \o Unvisited(Tail(list), seen)

\* super().keygen returned: the cold storage keys, q = [self.root], visited = set()
ArculaSetup ==
    /\ pc = "dhka_while"
    /\ q = <<>>
    /\ cls = "Arcula"
    /\ cold_storage_key' = _cold_storage_keys(Drop(seed, 256 \div 8))
    /\ cold_storage_public_key' = get_verifying_key(cold_storage_key')
    /\ q' = << root >>
    /\ visited' = {}
    /\ pc' = "arcula_while"
    /\ UNCHANGED <<bip44Vars, hierarchyVars, nodeVars, signing_key, certificate, u, i,
                   histVars, error, seed, tape, draws, calls>>

\* one pass of the while loop of Arcula.keygen
ArculaVisit ==
    /\ pc = "arcula_while"
    /\ q # <<>>
    /\ LET w == Head(q)
       IN  /\ u' = w
           /\ visited' = visited \cup {w}
           /\ signing_key' = [signing_key EXCEPT ![w] = ecdsa_keygen(key[w])]
           /\ certificate' =
                 [certificate EXCEPT ![w] =
                     _create_certificate(cold_storage_key,
                                       get_verifying_key(signing_key'[w]),
                                       id[w], Draw(tape, draws + 1))]
           /\ draws' = draws + 1
           /\ IF SiblingIdsDistinct(edges, id, w)
              THEN /\ q' = Tail(q) \o Unvisited(edges[w], visited')
                   /\ UNCHANGED <<pc, error>>
              ELSE /\ q' = Tail(q)
                   /\ Fail(SiblingIds)
    /\ UNCHANGED <<bip44Vars, hierarchyVars, nodeVars, cold_storage_public_key,
                   cold_storage_key, i, histVars, seed, tape, calls>>

\* the queue is empty: del cold_storage_key, Arcula.keygen returns
ArculaReturn ==
    /\ pc = "arcula_while"
    /\ q = <<>>
    /\ cold_storage_key' = None
    /\ pc' = "done"
    /\ UNCHANGED <<bip44Vars, hierarchyVars, nodeVars, signing_key, certificate,
                   cold_storage_public_key, localVars, histVars, error, seed,
                   tape, draws, calls>>

(***************************************************************************)
(* The caller builds a second hierarchy, equal to the first and fresh, and *)
(* keeps the outcome of keygen on the first for comparison.                *)
(***************************************************************************)
Rebuild ==
    /\ pc \in {"done", "failed"}
    /\ builds < MaxBuilds
    /\ builds' = builds + 1
    /\ prev' = Snapshot
    /\ label' = [v \in Nodes |-> None]
    /\ secret' = [v \in Nodes |-> None]
    /\ encryption_key' = [v \in Nodes |-> None]
    /\ key' = [v \in Nodes |-> None]
    /\ encrypted_edges' = [v \in Nodes |-> <<>>]
    /\ signing_key' = [v \in Nodes |-> None]
    /\ certificate' = [v \in Nodes |-> NoCertificate]
    /\ cold_storage_public_key' = None
    /\ edge_child' = [v \in Nodes |-> <<>>]
    /\ dequeues' = [v \in Nodes |-> 0]
    /\ pc' = "idle"
    /\ error' = ""
    /\ seed' = <<>>
    /\ q' = <<>>
    /\ visited' = {}
    /\ u' = root
    /\ i' = 1
    /\ cold_storage_key' = None
    /\ tape' = 1
    /\ draws' = 0
    /\ UNCHANGED <<bip44Vars, hierarchyVars, calls>>

Next ==
    \/ \E s \in Seeds, t \in Tapes : DHKAKeygen(s, t)
    \/ \E s \in Seeds, t \in Tapes : ArculaKeygen(s, t)
    \/ DHKAPop
    \/ DHKAEdge
    \/ DHKAEndFor
    \/ DHKAReturn
    \/ ArculaSetup
    \/ ArculaVisit
    \/ ArculaReturn

Spec == Init /\ [][Next]_vars

\* the second derivation is from the same seed as the first
SameSeedAgain == (builds > 1 /\ pc = "idle") => seed' = prev.seed

NextRebuild == (Next /\ SameSeedAgain) \/ Rebuild

SpecRebuild == Init /\ [][NextRebuild]_vars

(***************************************************************************)
(* The caller of Arcula.keygen builds a second hierarchy, equal to the     *)
(* first and fresh, as a DHKA, and runs DHKA.keygen on it with the first   *)
(* 32 bytes of the seed.                                                   *)
(***************************************************************************)
RebuildAsDHKA ==
    /\ cls = "Arcula"
    /\ pc \in {"done", "failed"}
    /\ builds < MaxBuilds
    /\ cls' = "DHKA"
    /\ builds' = builds + 1
    /\ prev' = Snapshot
    /\ label' = [v \in Nodes |-> None]
    /\ secret' = [v \in Nodes |-> None]
    /\ encryption_key' = [v \in Nodes |-> None]
    /\ key' = [v \in Nodes |-> None]
    /\ encrypted_edges' = [v \in Nodes |-> <<>>]
    /\ signing_key' = [v \in Nodes |-> None]
    /\ certificate' = [v \in Nodes |-> NoCertificate]
    /\ cold_storage_public_key' = None
    /\ edge_child' = [v \in Nodes |-> <<>>]
    /\ dequeues' = [v \in Nodes |-> 0]
    /\ pc' = "idle"
    /\ error' = ""
    /\ seed' = <<>>
    /\ q' = <<>>
    /\ visited' = {}
    /\ u' = root
    /\ i' = 1
    /\ cold_storage_key' = None
    /\ tape' = 1
    /\ draws' = 0
    /\ UNCHANGED <<bip44Vars, size, edges, id, calls>>

\* the second derivation is from seed[:256 // 8] of the first
FirstHalfAgain ==
    (builds > 1 /\ pc = "idle") => seed' = Take(prev.seed, 256 \div 8)

NextHalves == (Next /\ FirstHalfAgain) \/ RebuildAsDHKA

SpecHalves == Init /\ [][NextHalves]_vars

(***************************************************************************)
(* The caller calls keygen again on the same hierarchy object, populated   *)
(* or not by the call before, and keeps the fields the nodes had.  Further *)
(* calls are explored on the hierarchies of at most MaxRecallNodes nodes.  *)
(***************************************************************************)
\* Mutant: the encrypted edges of the nodes are emptied before the next call.
KeygenAgain_FreshLists ==
    /\ pc \in {"done", "failed"}
    /\ calls < MaxCalls
    /\ size <= MaxRecallNodes
    /\ prev' = Snapshot
    /\ pc' = "idle"
    /\ error' = ""
    /\ seed' = <<>>
    /\ q' = <<>>
    /\ visited' = {}
    /\ u' = root
    /\ i' = 1
    /\ cold_storage_key' = None
    /\ tape' = 1
    /\ draws' = 0
    /\ dequeues' = [v \in Nodes |-> 0]
    /\ encrypted_edges' = [v \in Nodes |-> <<>>]
    /\ edge_child' = [v \in Nodes |-> <<>>]
    /\ UNCHANGED <<bip44Vars, hierarchyVars, label, secret, encryption_key, key,
                   signing_key, certificate, cold_storage_public_key, calls,
                   builds>>

KeygenAgain ==
    /\ pc \in {"done", "failed"}
    /\ calls < MaxCalls
    /\ size <= MaxRecallNodes
    /\ prev' = Snapshot
    /\ pc' = "idle"
    /\ error' = ""
    /\ seed' = <<>>
    /\ q' = <<>>
    /\ visited' = {}
    /\ u' = root
    /\ i' = 1
    /\ cold_storage_key' = None
    /\ tape' = 1
    /\ draws' = 0
    /\ dequeues' = [v \in Nodes |-> 0]
    /\ UNCHANGED <<bip44Vars, hierarchyVars, nodeVars, signing_key, certificate,
                   cold_storage_public_key, calls, edge_child, builds>>

NextAgain == Next \/ KeygenAgain

SpecAgain == Init /\ [][NextAgain]_vars

(***************************************************************************)
(* The hierarchies of fewer nodes and one more inserted child-list entry:  *)
(* a node can be in three child lists, or twice in one and once in         *)
(* another.                                                                *)
(***************************************************************************)
DenseHierarchies ==
    UNION { { [n |-> n, edges |-> g] : g \in Hierarchies(n, MaxExtra + 1) } :
              n \in 1..MaxNodes - 1 }

InitDense ==
    /\ \E h \in DenseHierarchies :
          /\ size = h.n
          /\ edges = h.edges
    /\ id \in { f \in [Nodes -> Ids] : \A v \in Nodes : v > size => f[v] = 0 }
    /\ cls \in {"DHKA", "Arcula"}
    /\ FreshFields
    /\ NoCall
    /\ calls = 0
    /\ builds = 1
    /\ prev = Snapshot
    /\ NoBIP44

SpecDense == InitDense /\ [][Next]_vars

(***************************************************************************)
(* A keygen call that has started runs to its end: nothing in DHKA.keygen  *)
(* waits for anything, so a step of the derivation pass that can be taken  *)
(* is taken.  The traversal of DHKA.keygen reads no id and no byte of the  *)
(* seed: the ids are all 0, or alternate so that siblings differ.          *)
(***************************************************************************)
InitCycles ==
    /\ \E h \in DenseHierarchies :
          /\ size = h.n
          /\ edges = h.edges
    /\ id \in { [v \in Nodes |-> 0],
                [v \in Nodes |-> IF v <= size THEN v % (MaxId + 1) ELSE 0] }
    /\ cls \in {"DHKA", "Arcula"}
    /\ FreshFields
    /\ NoCall
    /\ calls = 0
    /\ builds = 1
    /\ prev = Snapshot
    /\ NoBIP44

DHKAStep == DHKAPop \/ DHKAEdge \/ DHKAEndFor \/ DHKAReturn \/ ArculaSetup

\* the seed has no part in the traversal: the calls are made with one 64-byte
\* seed, which both classes accept
NextOneSeed == Next /\ (pc = "idle" => seed' = << E(1), E(2) >>)

SpecCyclesFair == InitCycles /\ [][NextOneSeed]_vars /\ WF_vars(DHKAStep)

(***************************************************************************)
(* bip44.py.  A node id is a pair <<h, k>> standing for                    *)
(* h * BIP32_HARDENED_INDEX + k, with BIP32_HARDENED_INDEX = 2 ** 31.      *)
(***************************************************************************)
\* constants.CoinType
CoinType ==
    [c \in {"BTC", "TEST", "LTC", "BCH"} |->
        CASE c = "BTC" -> <<1, 0>>
          [] c = "TEST" -> <<1, 1>>
          [] c = "LTC" -> <<1, 2>>
          [] c = "BCH" -> <<1, 145>>]

\* cls(identifier, tag): a new node object, the last of the tree
NewNode(t, identifier, tg) ==
    [n |-> t.n + 1,
     edges |-> Append(t.edges, <<>>),
     id |-> Append(t.id, identifier),
     tag |-> Append(t.tag, tg)]

\* parent.edges.append(child)
AddEdge(t, parent, child) ==
    [t EXCEPT !.edges[parent] = Append(@, child)]

\* Mutant: the chain gets one node more than asked for.
RECURSIVE AddressChain_OneMore(_, _, _, _)
AddressChain_OneMore(t, previous_node, j, count) ==
    IF j > count THEN t
    ELSE LET t1 == NewNode(t, <<0, j>>, "None")
         IN  AddressChain_OneMore(AddEdge(t1, previous_node, t1.n), t1.n,
                                  j + 1, count)

\* for j in range(count): a node of id j under the previous one
RECURSIVE AddressChain(_, _, _, _)
AddressChain(t, previous_node, j, count) ==
    IF j >= count THEN t
    ELSE LET t1 == NewNode(t, <<0, j>>, "None")
         IN  AddressChain(AddEdge(t1, previous_node, t1.n), t1.n, j + 1, count)

\* one pass of the loop over coin_config: account idx with its two branches
AccountNodes(t, coin_node, idx, n_private_addresses, n_public_addresses) ==
    LET t1 == NewNode(t, <<0, idx>>, "None")
        account_node == t1.n
        t2 == NewNode(AddEdge(t1, coin_node, account_node), <<0, 0>>, "XPUB")
        public_node == t2.n
        t3 == NewNode(AddEdge(t2, account_node, public_node), <<0, 1>>, "XPRV")
        private_node == t3.n
        t4 == AddressChain(AddEdge(t3, account_node, private_node),
                           private_node, 0, n_private_addresses)
    IN  AddressChain(t4, public_node, 0, n_public_addresses)

\* the loop over enumerate(coin_config), from account idx on
RECURSIVE CoinAccounts(_, _, _, _)
CoinAccounts(t, coin_node, coin_config, idx) ==
    IF idx >= Len(coin_config) THEN t
    ELSE CoinAccounts(AccountNodes(t, coin_node, idx, coin_config[idx + 1][1],
                                   coin_config[idx + 1][2]),
                      coin_node, coin_config, idx + 1)

\* the loop over config.items(), from the k-th item on
RECURSIVE CoinNodes(_, _, _, _)
CoinNodes(t, purpose_node, cfg, k) ==
    IF k > Len(cfg) THEN t
    ELSE LET t1 == NewNode(t, CoinType[cfg[k].coin], cfg[k].coin)
         IN  CoinNodes(CoinAccounts(AddEdge(t1, purpose_node, t1.n), t1.n,
                                    cfg[k].accounts, 0),
                       purpose_node, cfg, k + 1)

\* the assertions of bip44_tree hold for every coin and account of the config
ConfigAccepted(cfg) ==
    \A k \in 1..Len(cfg) :
        /\ cfg[k].accounts # <<>>
        /\ \A a \in 1..Len(cfg[k].accounts) :
              cfg[k].accounts[a][1] > 0 \/ cfg[k].accounts[a][2] > 0

\* the tree the call returns when no assertion fails
bip44_tree(cfg) ==
    LET t1 == NewNode(EmptyTree, <<0, 0>>, "m")
        t2 == NewNode(t1, <<1, 44>>, "44'")
    IN  CoinNodes(AddEdge(t2, 1, 2), 2, cfg, 1)

\* str.upper() on the components a caller writes
Upper(w) ==
    CASE w = "btc" -> "BTC"
      [] w = "ltc" -> "LTC"
      [] w = "doge" -> "DOGE"
      [] w = "xpub" -> "XPUB"
      [] w = "xpriv" -> "XPRIV"
      [] w = "xprv" -> "XPRV"
      [] OTHER -> w

\* the components int() converts
IntWords == {"-2", "-1", "0", "1", "2", "3"}

IntOf(w) ==
    CASE w = "-2" -> 0 - 2
      [] w = "-1" -> 0 - 1
      [] w = "0" -> 0
      [] w = "1" -> 1
      [] w = "2" -> 2
      [] w = "3" -> 3

\* lines 89-91: 'XPUB' is 0, 'XPRIV' is 1, anything else goes through int()
Converts(w) == w \in {"XPUB", "XPRIV"} \/ w \in IntWords

ToInt(w) ==
    IF w = "XPUB" THEN 0 ELSE IF w = "XPRIV" THEN 1 ELSE IntOf(w)

\* path[len("m/44'/"):].upper().split("/"): splitting the empty string gives ['']
Components(p) ==
    IF p.comps = <<>> THEN << "" >>
    ELSE [j \in 1..Len(p.comps) |-> Upper(p.comps[j])]

\* Mutant: list[k] counts from one.
Index_FromOne(list, k) ==
    IF 1 <= k /\ k <= Len(list) THEN list[k] ELSE 0

\* list[k] of Python: k counts from zero, a negative k from the end; 0 stands
\* for IndexError
Index(list, k) ==
    IF 0 <= k /\ k < Len(list) THEN list[k + 1]
    ELSE IF 0 - Len(list) <= k /\ k < 0 THEN list[Len(list) + k + 1]
    ELSE 0

\* for _ in range(times): master = master.edges[0]; 0 stands for IndexError
RECURSIVE Descend(_, _, _)
Descend(t, w, times) ==
    IF times <= 0 THEN w
    ELSE IF t.edges[w] = <<>> THEN 0
    ELSE Descend(t, t.edges[w][1], times - 1)

Raise(exception) == [err |-> exception, node |-> 0]

Return(w) == [err |-> "", node |-> w]

\* lines 101-124: the walk from the purpose node, words the converted path
Walk(t, words) ==
    LET purpose == t.edges[1][1]
        coins == { j \in 1..Len(t.edges[purpose]) :
                     t.id[t.edges[purpose][j]] = CoinType[words[1]] }
    IN  IF coins = {} THEN Raise("AssertionError")
        ELSE
        LET coin_node == t.edges[purpose][CHOOSE j \in coins :
                                             \A k \in coins : j <= k]
            account_node ==
                IF Len(words) >= 2
                THEN Index(t.edges[coin_node], ToInt(words[2])) ELSE 0
            chain_node ==
                IF Len(words) >= 3 /\ account_node # 0
                THEN Index(t.edges[account_node], ToInt(words[3])) ELSE 0
            address_node ==
                IF Len(words) >= 4 /\ chain_node # 0
                THEN Descend(t, chain_node, ToInt(words[4]) + 1) ELSE 0
        IN  IF Len(words) = 1 THEN Return(coin_node)
            ELSE IF account_node = 0 THEN Raise("IndexError")
            ELSE IF Len(words) = 2 THEN Return(account_node)
            ELSE IF chain_node = 0 THEN Raise("IndexError")
            ELSE IF Len(words) = 3 THEN Return(chain_node)
            ELSE IF address_node = 0 THEN Raise("IndexError")
            ELSE IF Len(words) > 4 THEN Raise("AssertionError")
            ELSE Return(address_node)

find_bip44_node_with_path(t, p) ==
    LET words == Components(p)
    IN  IF p.prefix # "m/44'" THEN Raise("AssertionError")
        ELSE IF words[1] \notin DOMAIN CoinType THEN Raise("KeyError")
        ELSE IF \E j \in 2..Len(words) : ~Converts(words[j])
             THEN Raise("ValueError")
        ELSE IF ~(/\ t.n >= 2
                  /\ t.id[1] = <<0, 0>> /\ t.tag[1] = "m"
                  /\ Len(t.edges[1]) = 1
                  /\ t.id[t.edges[1][1]] = <<1, 44>>
                  /\ t.tag[t.edges[1][1]] = "44'"
                  /\ Len(t.edges[t.edges[1][1]]) > 0)
             THEN Raise("AssertionError")
        ELSE Walk(t, words)

\* the configs a caller passes: coins of CoinType, each once, and for each a
\* tuple of accounts (n_private_addresses, n_public_addresses)
Counts == (0 - 1)..MaxCount

AccountTuples == UNION { [1..l -> Counts \X Counts] : l \in 0..MaxAccounts }

RECURSIVE TotalAccounts(_)
TotalAccounts(cfg) ==
    IF cfg = <<>> THEN 0
    ELSE Len(Head(cfg).accounts) + TotalAccounts(Tail(cfg))

Configs ==
    { cfg \in UNION { [1..l -> [coin : {"BTC", "LTC"}, accounts : AccountTuples]] :
                        l \in 0..MaxCoins } :
        /\ \A j, k \in 1..Len(cfg) : cfg[j].coin = cfg[k].coin => j = k
        /\ TotalAccounts(cfg) <= MaxAccounts }

\* the paths a caller looks up: no path, a wrong prefix, no component, a coin
\* that is none, and a coin followed by up to three components, or by four
CoinWords == {"BTC", "ltc"}

PathWords == {"-1", "0", "1", "2", "xpub", "xpriv", "xprv"}

Paths ==
    { [prefix |-> x, comps |-> c] : x \in {"", "m/45'"}, c \in {<<>>, <<"BTC">>} }
      \cup { [prefix |-> "m/44'", comps |-> c] :
                c \in {<<>>, <<"DOGE">>, <<"doge", "0">>, <<"XPUB", "0">>} }
      \cup { [prefix |-> "m/44'", comps |-> <<c>> \o w] :
                c \in CoinWords,
                w \in UNION { [1..l -> PathWords] : l \in 0..3 } }
      \cup { [prefix |-> "m/44'", comps |-> <<c>> \o w \o <<"0">>] :
                c \in CoinWords, w \in [1..3 -> {"0", "1", "xpub"}] }

InitBIP44 ==
    /\ config \in Configs
    /\ master = EmptyTree
    /\ path = NoPath
    /\ found = 0
    /\ bip_pc = "config"
    /\ bip_error = ""
    /\ size = 1
    /\ edges = [v \in Nodes |-> <<>>]
    /\ id = [v \in Nodes |-> 0]
    /\ cls = "DHKA"
    /\ FreshFields
    /\ NoCall
    /\ calls = 0
    /\ builds = 1
    /\ prev = Snapshot

keygenVars == <<hierarchyVars, nodeVars, arculaVars, localVars, histVars,
                pc, error, seed, tape, draws, calls>>

\* the caller calls bip44_tree(config)
Bip44Tree ==
    /\ bip_pc = "config"
    /\ IF ConfigAccepted(config)
       THEN /\ master' = bip44_tree(config)
            /\ bip_pc' = "tree"
            /\ UNCHANGED bip_error
       ELSE /\ bip_pc' = "no_tree"
            /\ bip_error' = "AssertionError"
            /\ UNCHANGED master
    /\ UNCHANGED <<config, path, found, keygenVars>>

\* the caller calls find_bip44_node_with_path(master, p)
FindBip44NodeWithPath(p) ==
    /\ bip_pc = "tree"
    /\ path' = p
    /\ LET r == find_bip44_node_with_path(master, p)
       IN  /\ found' = r.node
           /\ bip_error' = r.err
           /\ bip_pc' = IF r.err = "" THEN "found" ELSE "not_found"
    /\ UNCHANGED <<config, master, keygenVars>>

NextBIP44 ==
    \/ Bip44Tree
    \/ bip_pc = "tree" /\ \E p \in Paths : FindBip44NodeWithPath(p)

SpecBIP44 == InitBIP44 /\ [][NextBIP44]_vars

(***************************************************************************)
(* Vocabulary of the properties.                                           *)
(***************************************************************************)
Hier == Reachable(edges)

Tree == IsTree(edges)

ChildIndexes(p) == 1..Len(edges[p])

\* v is in the child lists of two different parents
SharedChild(v) ==
    \E a, b \in Places(edges, v) : a[1] # b[1]

\* two children of p carry the same id
DuplicateIdsUnder(p) ==
    \E j, k \in ChildIndexes(p) : j # k /\ id[edges[p][j]] = id[edges[p][k]]

\* the parent of a node of a tree
ParentOf(v) == CHOOSE p \in Hier : \E j \in ChildIndexes(p) : edges[p][j] = v

\* the call of DHKA.keygen (directly, or as super().keygen) has returned normally
DHKAReturned ==
    \/ cls = "DHKA" /\ pc = "done"
    \/ cls = "Arcula" /\ pc \in {"arcula_while", "done"}
    \/ cls = "Arcula" /\ pc = "failed" /\ error = SiblingIds

\* the seed DHKA.keygen was called with
DHKASeed == IF cls = "DHKA" THEN seed ELSE SubSeq(seed, 1, 1)

\* the pseudorandom function: the first 32 bytes of SHA3-512 of key || message
PRF(k, m) == << [t |-> "sha3", n |-> 1, a |-> k \o m] >>

\* the 8 bytes of big-endian value x
Be64(x) == << [t |-> "b8", n |-> x, a |-> <<>>] >>

Byte(x) == << [t |-> "b1", n |-> x, a |-> <<>>] >>

Unset(x) == x = None

(***************************************************************************)
(* C1.  A hierarchy in which one node object is in the child lists of two  *)
(* different parents makes DHKA.keygen fail with 'The poset is not a       *)
(* tree.'; it never returns normally and never stops on another assertion. *)
(***************************************************************************)
C1_SharedChildIsRejected ==
    (cls = "DHKA" /\ \E v \in Hier : SharedChild(v))
        => /\ pc # "done"
           /\ pc = "failed" => error = NotATree

(***************************************************************************)
(* C2.  On a tree in which some parent has two children with the same id,  *)
(* Arcula.keygen with a 64-byte seed never returns normally: the call      *)
(* keeps taking steps until it stops, and it stops on the sibling-         *)
(* uniqueness assertion.                                                   *)
(***************************************************************************)
C2_DuplicateSiblingIdsFail ==
    (/\ cls = "Arcula"
     /\ Tree
     /\ \E p \in Hier : DuplicateIdsUnder(p)
     /\ pc # "idle"
     /\ ByteLen(seed) = 64)
        => /\ pc # "done"
           /\ pc = "failed" => error = SiblingIds
           /\ pc # "failed" => ENABLED Next

C2_Witness ==
    /\ cls = "Arcula"
    /\ Tree
    /\ pc = "failed"
    /\ error = SiblingIds
    /\ u # root
    /\ DuplicateIdsUnder(u)
    /\ ByteLen(seed) = 64

(***************************************************************************)
(* C3 as stated.  When Arcula.keygen fails on a hierarchy that violates    *)
(* sibling-id uniqueness, no node has a certificate set at the moment of   *)
(* failure.                                                                *)
(***************************************************************************)
C3_NoCertificateAtFailure ==
    (/\ cls = "Arcula"
     /\ \E p \in Hier : DuplicateIdsUnder(p)
     /\ pc = "failed")
        => \A v \in Nodes : certificate[v] = NoCertificate

(***************************************************************************)
(* C3 as amended.  When Arcula.keygen fails on a hierarchy that violates   *)
(* sibling-id uniqueness, the nodes that have a certificate set at the     *)
(* moment of failure are exactly the nodes the certificate traversal has   *)
(* dequeued: on the sibling-uniqueness assertion these are the violating   *)
(* parent, which is the first violating parent dequeued, and the nodes     *)
(* dequeued before it, the root among them; on any earlier assertion no    *)
(* node has a certificate.                                                 *)
(***************************************************************************)
C3_CertificatesOnlyOnDequeued ==
    (/\ cls = "Arcula"
     /\ \E p \in Hier : DuplicateIdsUnder(p)
     /\ pc = "failed")
        => IF error = SiblingIds
           THEN /\ \A v \in Nodes : certificate[v] # NoCertificate <=> v \in visited
                /\ root \in visited
                /\ u \in visited
                /\ DuplicateIdsUnder(u)
                /\ \A p \in visited \ {u} : ~DuplicateIdsUnder(p)
           ELSE \A v \in Nodes : certificate[v] = NoCertificate

C3_Witness ==
    /\ cls = "Arcula"
    /\ pc = "failed"
    /\ error = SiblingIds
    /\ u # root
    /\ certificate[root] # NoCertificate
    /\ certificate[u] # NoCertificate
    /\ \E v \in Hier : certificate[v] = NoCertificate

(***************************************************************************)
(* C4.  After Arcula.keygen returns normally on a tree, every node u of    *)
(* the hierarchy has the signing key ecdsa_keygen(u._key) and a            *)
(* certificate (sig, (pk33, id8)): pk33 the compressed form of the public  *)
(* signing key, id8 the 8 big-endian bytes of u.id, and sig verifies under *)
(* cold_storage_public_key over pk33 || id8.  No certificate is None.      *)
(***************************************************************************)
C4_CertificatesValid ==
    (cls = "Arcula" /\ pc = "done" /\ Tree)
        => \A v \in Hier :
              /\ ~Unset(key[v])
              /\ signing_key[v] = << [t |-> "sk", n |-> 0, a |-> key[v]] >>
              /\ certificate[v] # NoCertificate
              /\ certificate[v].pk =
                    verification_key_to_bytes_33(get_verifying_key(signing_key[v]))
              /\ certificate[v].id = Be64(id[v])
              /\ ecdsa_verify(cold_storage_public_key, certificate[v].sig,
                              certificate[v].pk \o certificate[v].id)

C4_Witness ==
    /\ cls = "Arcula"
    /\ pc = "done"
    /\ Tree
    /\ Cardinality(Hier) >= 4
    /\ \E v \in Hier : Len(edges[v]) >= 2

(***************************************************************************)
(* C5.  After DHKA.keygen returns normally on a tree, for every edge from  *)
(* a parent p to its j-th child v, decrypting p.encrypted_edges[j] with    *)
(* PRF(p._encryption_key, 0x02 || v._label) yields v._encryption_key ||    *)
(* v._key, the values v holds at the end of keygen.                        *)
(***************************************************************************)
C5_EdgeRoundTrip ==
    (DHKAReturned /\ Tree)
        => \A p \in Hier : \A j \in ChildIndexes(p) :
              /\ j <= Len(encrypted_edges[p])
              /\ aes_ad(PRF(encryption_key[p], Byte(2) \o label[edges[p][j]]),
                        encrypted_edges[p][j])
                    = encryption_key[edges[p][j]] \o key[edges[p][j]]

C5_Witness ==
    /\ cls = "DHKA"
    /\ pc = "done"
    /\ Tree
    /\ \E p \in Hier : p # root /\ Len(edges[p]) >= 1
    /\ \E p \in Hier : Len(edges[p]) >= 2

(***************************************************************************)
(* C6.  After DHKA.keygen(seed) returns normally on a tree, every node v   *)
(* has label be64(v.id), secret PRF(k, 0x03 || label) with k the seed for  *)
(* the root and the parent's secret otherwise, encryption key              *)
(* PRF(secret, 0x00 || label) and private key PRF(secret, 0x01 || label);  *)
(* none of the four is unset.                                              *)
(***************************************************************************)
C6_TupleDerivation ==
    (DHKAReturned /\ Tree)
        => \A v \in Hier :
              /\ ~Unset(label[v]) /\ ~Unset(secret[v])
              /\ ~Unset(encryption_key[v]) /\ ~Unset(key[v])
              /\ label[v] = Be64(id[v])
              /\ secret[v] =
                    PRF(IF v = root THEN DHKASeed ELSE secret[ParentOf(v)],
                        Byte(3) \o Be64(id[v]))
              /\ encryption_key[v] = PRF(secret[v], Byte(0) \o Be64(id[v]))
              /\ key[v] = PRF(secret[v], Byte(1) \o Be64(id[v]))

C6_Witness ==
    /\ DHKAReturned
    /\ Tree
    /\ \E v \in Hier : v # root /\ ParentOf(v) # root /\ id[v] # id[ParentOf(v)]

(***************************************************************************)
(* C7.  Whenever DHKA.keygen returns normally, every node u of the         *)
(* hierarchy has as many encrypted edges as edges, and the j-th encrypted  *)
(* edge is the cipher made for the j-th child, under the edge key of that  *)
(* child's label.                                                          *)
(***************************************************************************)
C7_EncryptedEdgesAligned ==
    DHKAReturned
        => \A p \in Hier :
              /\ Len(encrypted_edges[p]) = Len(edges[p])
              /\ edge_child[p] = edges[p]
              /\ \A j \in ChildIndexes(p) :
                    SubSeq(encrypted_edges[p][j][2][1].a, 1, 1)
                        = PRF(encryption_key[p], Byte(2) \o Be64(id[edges[p][j]]))

C7_Witness ==
    /\ DHKAReturned
    /\ \E p \in Hier :
          /\ Len(edges[p]) >= 2
          /\ id[edges[p][1]] # id[edges[p][2]]
          /\ Len(encrypted_edges[p]) = 2

(***************************************************************************)
(* C8 as stated.  Two runs of keygen with the same seed on two equal,      *)
(* freshly built hierarchies yield, for every node, identical secret,      *)
(* encryption key, private key, signing key and certificate (signature     *)
(* bytes and certified message).                                           *)
(***************************************************************************)
BothRunsOver ==
    /\ builds = 2
    /\ pc \in {"done", "failed"}
    /\ prev.pc \in {"done", "failed"}
    /\ seed = prev.seed

C8_Deterministic ==
    BothRunsOver
        => \A v \in Hier :
              /\ secret[v] = prev.secret[v]
              /\ encryption_key[v] = prev.encryption_key[v]
              /\ key[v] = prev.key[v]
              /\ signing_key[v] = prev.signing_key[v]
              /\ certificate[v] = prev.certificate[v]

(***************************************************************************)
(* C8 as amended.  The two runs end the same way and yield, for every      *)
(* node, identical label, secret, encryption key, private key and signing  *)
(* key, and a certificate over the same message (public key, id) under the *)
(* same cold storage key; the signature bytes are drawn afresh in each run *)
(* and need not be equal, and each verifies over the certified message.    *)
(***************************************************************************)
C8_DeterministicButSignature ==
    BothRunsOver
        => /\ pc = prev.pc
           /\ error = prev.error
           /\ cold_storage_public_key = prev.cold_storage_public_key
           /\ \A v \in Hier :
                 /\ label[v] = prev.label[v]
                 /\ secret[v] = prev.secret[v]
                 /\ encryption_key[v] = prev.encryption_key[v]
                 /\ key[v] = prev.key[v]
                 /\ signing_key[v] = prev.signing_key[v]
                 /\ certificate[v].pk = prev.certificate[v].pk
                 /\ certificate[v].id = prev.certificate[v].id
                 /\ certificate[v] = NoCertificate
                       <=> prev.certificate[v] = NoCertificate
                 /\ certificate[v] # NoCertificate
                       => /\ ecdsa_verify(cold_storage_public_key,
                                          certificate[v].sig,
                                          certificate[v].pk \o certificate[v].id)
                          /\ ecdsa_verify(cold_storage_public_key,
                                          prev.certificate[v].sig,
                                          certificate[v].pk \o certificate[v].id)

C8_Witness ==
    /\ BothRunsOver
    /\ cls = "Arcula"
    /\ pc = "done"
    /\ Cardinality(Hier) >= 3
    /\ \A v \in Hier : certificate[v].sig # prev.certificate[v].sig

(***************************************************************************)
(* What a party can compute.  From the byte strings it knows, the ids of   *)
(* the nodes and the edge ciphers, a party obtains the PRF of any message  *)
(* it can write under any key it knows, and the two halves of the          *)
(* plaintext of any cipher it can decrypt.  The PRF is one-way: nothing is *)
(* obtained from an output of the PRF but by using it as a key.            *)
(***************************************************************************)
Ciphers == UNION { { encrypted_edges[p][j] : j \in 1..Len(encrypted_edges[p]) } :
                     p \in Hier }

\* the secret byte strings of the hierarchy: the material of the nodes and the
\* keys the edge ciphers were made under
Material ==
    UNION { { secret[v], encryption_key[v], key[v] } : v \in Hier }
      \cup { SubSeq(c[2][1].a, 1, 1) : c \in Ciphers }

\* the party can write the chunk: it is literal, or a byte string it knows
CanWrite(c, K) == c.t \in {"b1", "b8"} \/ << c >> \in K

\* the party can compute x as the PRF of bytes it can write
CanHash(x, K) ==
    /\ Len(x) = 1
    /\ x[1].t = "sha3"
    /\ \A j \in 1..Len(x[1].a) : CanWrite(x[1].a[j], K)

\* the halves of the plaintexts of the ciphers a known key decrypts
Decrypted(K) ==
    UNION { { Take(aes_ad(kc[1], kc[2]), 32), Drop(aes_ad(kc[1], kc[2]), 32) } :
              kc \in { x \in K \X Ciphers : aes_ad(x[1], x[2]) # InvalidTag } }

Learn(K) == K \cup { x \in Material : CanHash(x, K) } \cup Decrypted(K)

RECURSIVE LearnAll(_, _)
LearnAll(K, n) ==
    IF n = 0 \/ Learn(K) = K THEN K ELSE LearnAll(Learn(K), n - 1)

Obtainable(K) == LearnAll(K, 4 * Cardinality(Hier))

SeedHasEntropy == DHKASeed # <<>>

(***************************************************************************)
(* C9.  After DHKA.keygen on a tree with pairwise-distinct sibling ids, a  *)
(* party that knows only the secret and the encryption key of node v (and  *)
(* the ids and the edge ciphers) obtains the secret, encryption key and    *)
(* private key of every node below v, and none of them for a node that is  *)
(* neither v nor below v.  The seed is a secret of the caller, so it is    *)
(* not the empty byte string, which every party can write.                 *)
(***************************************************************************)
C9_SubtreeAccess ==
    (/\ DHKAReturned
     /\ Tree
     /\ SeedHasEntropy
     /\ \A p \in Hier : ~DuplicateIdsUnder(p))
        => \A v \in Hier :
              LET K == Obtainable({ secret[v], encryption_key[v] })
              IN  \A w \in Hier :
                     IF w \in Below(edges, v)
                     THEN {secret[w], encryption_key[w], key[w]} \subseteq K
                     ELSE w # v =>
                            {secret[w], encryption_key[w], key[w]} \cap K = {}

C9_Witness ==
    /\ DHKAReturned
    /\ Tree
    /\ SeedHasEntropy
    /\ \A p \in Hier : ~DuplicateIdsUnder(p)
    /\ \E v \in Hier \ {root} :
          /\ Below(edges, v) # {}
          /\ \E w \in Hier \ {root} :
                /\ w # v
                /\ w \notin Below(edges, v)
                /\ v \notin Below(edges, w)
                /\ id[w] # id[v]
          /\ Cardinality(Obtainable({ secret[v], encryption_key[v] })) > 3

(***************************************************************************)
(* C10.  After DHKA.keygen on a tree, a party that knows only the          *)
(* encryption key of node v (and the ids and the edge ciphers) obtains the *)
(* encryption key and the private key of every node below v, and the       *)
(* secret of no node of the hierarchy, that of v included.  The seed is a  *)
(* secret of the caller, so it is not the empty byte string.               *)
(***************************************************************************)
C10_SelectiveDisclosure ==
    (DHKAReturned /\ Tree /\ SeedHasEntropy)
        => \A v \in Hier :
              LET K == Obtainable({ encryption_key[v] })
              IN  /\ \A w \in Below(edges, v) :
                        {encryption_key[w], key[w]} \subseteq K
                  /\ \A w \in Hier : secret[w] \notin K

C10_Witness ==
    /\ DHKAReturned
    /\ Tree
    /\ SeedHasEntropy
    /\ \E v \in Hier :
          /\ \E w \in Below(edges, v) : Below(edges, w) # {}
          /\ \E w \in Below(edges, v) :
                key[w] \in Obtainable({ encryption_key[v] })

(***************************************************************************)
(* C11.  For every 64-byte seed and tree, Arcula.keygen(seed) gives every  *)
(* node the label, secret, encryption key and private key that             *)
(* DHKA.keygen(seed[:32]) gives on an equal hierarchy, and sets            *)
(* cold_storage_public_key to the public key of ecdsa_keygen(seed[32:]).   *)
(* When the two halves of the seed differ, no node's material is computed  *)
(* from seed[32:] and the cold storage key is not computed from seed[:32]. *)
(***************************************************************************)
\* the byte string x is computed from the chunk c
RECURSIVE Mentions(_, _)
Mentions(x, c) ==
    \E j \in 1..Len(x) : x[j] = c \/ Mentions(x[j].a, c)

\* the Arcula run went past super().keygen and the DHKA run returned
HalvesCompared ==
    /\ builds = 2
    /\ cls = "DHKA"
    /\ pc = "done"
    /\ prev.pc = "done" \/ (prev.pc = "failed" /\ prev.error = SiblingIds)
    /\ Tree

C11_ArculaRefinesDHKA ==
    HalvesCompared
        => /\ Len(prev.seed) = 2
           /\ seed = SubSeq(prev.seed, 1, 1)
           /\ \A v \in Hier :
                 /\ ~Unset(prev.secret[v])
                 /\ prev.label[v] = label[v]
                 /\ prev.secret[v] = secret[v]
                 /\ prev.encryption_key[v] = encryption_key[v]
                 /\ prev.key[v] = key[v]
           /\ prev.cold_storage_public_key =
                 << [t |-> "vk", n |-> 0, a |-> SubSeq(prev.seed, 2, 2)] >>
           /\ prev.seed[1] # prev.seed[2]
                 => /\ ~Mentions(prev.cold_storage_public_key, prev.seed[1])
                    /\ \A v \in Hier :
                          /\ ~Mentions(prev.secret[v], prev.seed[2])
                          /\ ~Mentions(prev.encryption_key[v], prev.seed[2])
                          /\ ~Mentions(prev.key[v], prev.seed[2])
                          /\ Mentions(prev.secret[v], prev.seed[1])

C11_Witness ==
    /\ HalvesCompared
    /\ prev.pc = "done"
    /\ Cardinality(Hier) >= 3
    /\ prev.seed[1] # prev.seed[2]
    /\ \E v \in Hier : v # root /\ prev.key[v] = key[v] /\ ~Unset(key[v])

(***************************************************************************)
(* The fields of the nodes are the ones they had when keygen was called.   *)
(***************************************************************************)
FieldsAsBefore ==
    /\ cold_storage_public_key = prev.cold_storage_public_key
    /\ \A v \in Nodes :
          /\ label[v] = prev.label[v]
          /\ secret[v] = prev.secret[v]
          /\ encryption_key[v] = prev.encryption_key[v]
          /\ key[v] = prev.key[v]
          /\ encrypted_edges[v] = prev.encrypted_edges[v]
          /\ signing_key[v] = prev.signing_key[v]
          /\ certificate[v] = prev.certificate[v]

(***************************************************************************)
(* C12 as stated.  A seed of the wrong length is rejected by both keygen   *)
(* operations before any node field is written: DHKA.keygen fails for      *)
(* every seed that is not 32 bytes long, Arcula.keygen for every seed that *)
(* is not 64 bytes long, and the fields of the nodes are left unchanged.   *)
(***************************************************************************)
C12_WrongLengthRejected ==
    (/\ pc # "idle"
     /\ \/ cls = "DHKA" /\ ByteLen(seed) # 32
        \/ cls = "Arcula" /\ ByteLen(seed) # 64)
        => /\ pc = "failed"
           /\ FieldsAsBefore

(***************************************************************************)
(* C12 as amended.  Arcula.keygen rejects every seed that is not 64 bytes  *)
(* long on its length assertion, before any node field is written: the     *)
(* fields of the nodes and the cold storage public key are left as they    *)
(* were.  A 64-byte seed never fails that assertion.  DHKA.keygen has no   *)
(* length assertion: called directly it accepts a seed of any length and   *)
(* writes the root's tuple from it.                                        *)
(***************************************************************************)
C12_ArculaRejectsWrongLength ==
    pc # "idle"
        => /\ (cls = "Arcula" /\ ByteLen(seed) # 64)
                 => /\ pc = "failed"
                    /\ error = SeedLength
                    /\ FieldsAsBefore
           /\ (cls = "Arcula" /\ ByteLen(seed) = 64) => error # SeedLength
           /\ cls = "DHKA"
                 => /\ error # SeedLength
                    /\ secret[root] = PRF(seed, Byte(3) \o Be64(id[root]))

C12_Witness ==
    /\ cls = "Arcula"
    /\ pc = "failed"
    /\ error = SeedLength
    /\ ByteLen(seed) = 32
    /\ calls = 2
    /\ prev.pc = "done"
    /\ ~Unset(secret[root])
    /\ size > 1

(***************************************************************************)
(* C13.  Once a keygen has populated a hierarchy, the cryptographic fields *)
(* of its nodes (label, secret, encryption key, private key, encrypted     *)
(* edges, signing key, certificate) never change under a later keygen call *)
(* on that hierarchy, with the same or a different seed.                   *)
(***************************************************************************)
C13_FieldsImmutable ==
    (calls >= 2 /\ prev.pc = "done")
        => \A v \in Hier :
              /\ label[v] = prev.label[v]
              /\ secret[v] = prev.secret[v]
              /\ encryption_key[v] = prev.encryption_key[v]
              /\ key[v] = prev.key[v]
              /\ encrypted_edges[v] = prev.encrypted_edges[v]
              /\ signing_key[v] = prev.signing_key[v]
              /\ certificate[v] = prev.certificate[v]

(***************************************************************************)
(* C18.  In Arcula.keygen on a tree, a sibling-id collision among the      *)
(* children of a parent p is detected before any child of p receives a     *)
(* signing key or a certificate: at the moment of failure every child of   *)
(* p, and every node below p, has no signing key and no certificate.       *)
(***************************************************************************)
C18_NoCertificateBelowCollision ==
    (cls = "Arcula" /\ Tree /\ pc = "failed" /\ error = SiblingIds)
        => \A p \in Hier :
              DuplicateIdsUnder(p)
                  => \A w \in Below(edges, p) :
                        /\ certificate[w] = NoCertificate
                        /\ Unset(signing_key[w])

C18_Witness ==
    /\ cls = "Arcula"
    /\ Tree
    /\ pc = "failed"
    /\ error = SiblingIds
    /\ \E p \in Hier \ {root} :
          /\ DuplicateIdsUnder(p)
          /\ certificate[p] # NoCertificate
          /\ ~Unset(signing_key[p])
          /\ \A w \in Below(edges, p) : ~Unset(key[w])

(***************************************************************************)
(* Counts of one DHKA.keygen pass.  The root is queued once before the     *)
(* loop and each pass of the for loop queues one child, writes its tuple   *)
(* and appends its cipher, so a node was queued, and its tuple written, as *)
(* often as it is the root of a started call plus as often as a cipher was *)
(* appended for it.                                                        *)
(***************************************************************************)
Enqueues(v) ==
    (IF v = root /\ pc # "idle" /\ ~(pc = "failed" /\ error = SeedLength)
     THEN 1 ELSE 0)
    + Cardinality({ pj \in Nodes \X (1..2 * (MaxNodes + MaxExtra)) :
                      /\ pj[2] <= Len(edge_child[pj[1]])
                      /\ edge_child[pj[1]][pj[2]] = v })

TupleWrites(v) == Enqueues(v)

TupleSet(v) ==
    /\ ~Unset(label[v]) /\ ~Unset(secret[v])
    /\ ~Unset(encryption_key[v]) /\ ~Unset(key[v])

TupleUnset(v) ==
    /\ Unset(label[v]) /\ Unset(secret[v])
    /\ Unset(encryption_key[v]) /\ Unset(key[v])

\* DHKA.keygen is in its while loop
InDHKALoop == pc \in {"dhka_while", "dhka_for"}

LooksComplete ==
    \A v \in Hier :
        /\ TupleSet(v)
        /\ Len(encrypted_edges[v]) = Len(edges[v])

C19_ViolationLooksIncomplete ==
    (pc = "failed" /\ error = NotATree) => ~LooksComplete

(***************************************************************************)
(* Vocabulary of the properties of bip44.py.                               *)
(***************************************************************************)
Children(t, w) == { t.edges[w][j] : j \in 1..Len(t.edges[w]) }

\* the nodes a breadth-first walk from the master node meets in k steps
RECURSIVE MetIn(_, _)
MetIn(t, k) ==
    IF k = 0 THEN {1}
    ELSE LET R == MetIn(t, k - 1)
         IN  R \cup UNION { Children(t, w) : w \in R }

\* the child-list entries that hold node w
EntriesOf(t, w) ==
    { e \in (1..t.n) \X (1..t.n) :
        e[2] <= Len(t.edges[e[1]]) /\ t.edges[e[1]][e[2]] = w }

\* the walk from the master node never meets a node twice
NeverMetTwice(t) ==
    \A w \in MetIn(t, t.n) :
        Cardinality(EntriesOf(t, w)) = IF w = 1 THEN 0 ELSE 1

\* both counts of every account are >= 0, one is > 0, no coin is without account
ValidConfig(cfg) ==
    \A k \in 1..Len(cfg) :
        /\ cfg[k].accounts # <<>>
        /\ \A a \in 1..Len(cfg[k].accounts) :
              /\ cfg[k].accounts[a][1] >= 0
              /\ cfg[k].accounts[a][2] >= 0
              /\ cfg[k].accounts[a][1] + cfg[k].accounts[a][2] > 0

RECURSIVE AccountsCount(_)
AccountsCount(accounts) ==
    IF accounts = <<>> THEN 0
    ELSE 1 + 2 + Head(accounts)[1] + Head(accounts)[2]
           + AccountsCount(Tail(accounts))

RECURSIVE CoinsCount(_)
CoinsCount(cfg) ==
    IF cfg = <<>> THEN 0
    ELSE 1 + AccountsCount(Head(cfg).accounts) + CoinsCount(Tail(cfg))

(***************************************************************************)
(* C16.  For every valid config, bip44_tree(config) returns a tree: a      *)
(* breadth-first walk from the master node never meets a node twice, and   *)
(* the number of nodes it meets is 1 (master) + 1 (purpose) + for each     *)
(* coin 1 + for each account (n_private, n_public) 1 + 2 + n_private +     *)
(* n_public.                                                               *)
(***************************************************************************)
C16_NodeCount ==
    (bip_pc # "config" /\ ValidConfig(config))
        => /\ bip_pc # "no_tree"
           /\ NeverMetTwice(master)
           /\ Cardinality(MetIn(master, master.n)) = 1 + 1 + CoinsCount(config)
           /\ master.n = 1 + 1 + CoinsCount(config)

C16_Witness ==
    /\ bip_pc = "tree"
    /\ ValidConfig(config)
    /\ Len(config) = 2
    /\ Cardinality(MetIn(master, master.n)) = 2 + 2 * (1 + 3 + 2 * MaxCount)

(***************************************************************************)
(* C17.  bip44_tree accepts an account (n_private, n_public) only when     *)
(* both counts are >= 0 and at least one is > 0: a config with an account  *)
(* with a negative count, or with both counts 0, or with a coin without    *)
(* accounts, fails with an assertion and returns no tree.                  *)
(***************************************************************************)
C17_BadCountsRejected ==
    (bip_pc # "config" /\ ~ValidConfig(config))
        => /\ bip_pc = "no_tree"
           /\ bip_error = "AssertionError"
           /\ master = EmptyTree

(***************************************************************************)
(* What a path names in the config the tree was built from.                *)
(***************************************************************************)
PathCoin == Upper(path.comps[1])

PathConfigured ==
    /\ path.prefix = "m/44'"
    /\ Len(path.comps) >= 1
    /\ \E k \in 1..Len(config) : config[k].coin = PathCoin

PathAccounts ==
    config[CHOOSE k \in 1..Len(config) : config[k].coin = PathCoin].accounts

\* the path's account component is a number
PathHasAccount == Len(path.comps) >= 2 /\ path.comps[2] \in IntWords

PathAccount == IntOf(path.comps[2])

AccountInRange == 0 <= PathAccount /\ PathAccount < Len(PathAccounts)

PathHasBranch ==
    Len(path.comps) >= 3 /\ Upper(path.comps[3]) \in {"XPUB", "XPRIV"}

\* index of the branch, and of its count in the account's pair
PathBranch == IF Upper(path.comps[3]) = "XPUB" THEN 0 ELSE 1

PathHasAddress == Len(path.comps) >= 4 /\ path.comps[4] \in IntWords

PathAddress == IntOf(path.comps[4])

AddressInRange ==
    /\ 0 <= PathAddress
    /\ PathAddress < PathAccounts[PathAccount + 1][IF PathBranch = 0 THEN 2 ELSE 1]

\* m/44'/C, m/44'/C/a, m/44'/C/a/b or m/44'/C/a/b/k, all within the config
PathWithinConfig ==
    /\ PathConfigured
    /\ Len(path.comps) <= 4
    /\ Len(path.comps) >= 2 => PathHasAccount /\ AccountInRange
    /\ Len(path.comps) >= 3 => PathHasBranch
    /\ Len(path.comps) >= 4 => PathHasAddress /\ AddressInRange

\* the nodes n steps below w
RECURSIVE StepsBelow(_, _, _)
StepsBelow(t, w, n) ==
    IF n = 0 THEN {w}
    ELSE UNION { StepsBelow(t, x, n - 1) : x \in Children(t, w) }

CoinNodesNamed ==
    { c \in Children(master, 2) :
        master.tag[c] = PathCoin /\ master.id[c] = CoinType[PathCoin] }

AccountNodesNamed ==
    UNION { { x \in Children(master, c) : master.id[x] = <<0, PathAccount>> } :
              c \in CoinNodesNamed }

BranchNodesNamed ==
    UNION { { y \in Children(master, x) :
                /\ master.id[y] = <<0, PathBranch>>
                /\ master.tag[y] = IF PathBranch = 0 THEN "XPUB" ELSE "XPRV" } :
              x \in AccountNodesNamed }

AddressNodesNamed ==
    UNION { StepsBelow(master, y, PathAddress + 1) : y \in BranchNodesNamed }

(***************************************************************************)
(* C14.  On a tree built by bip44_tree(config), for a path m/44'/C/a/b/k   *)
(* with C a configured coin, a an account of C, b xpub or xpriv and k an   *)
(* index of the address chain of that branch, find_bip44_node_with_path    *)
(* returns the one node that is k + 1 steps below the branch b (id 0 for   *)
(* xpub, 1 for xpriv) of the account of id a of the coin C, and that node  *)
(* has id k; for the prefixes m/44'/C, m/44'/C/a and m/44'/C/a/b it        *)
(* returns the coin node, the account node of id a, which is the (a+1)-th  *)
(* child of the coin node, and the branch node.                            *)
(***************************************************************************)
C14_PathResolves ==
    (bip_pc \in {"found", "not_found"} /\ PathWithinConfig)
        => /\ bip_pc = "found"
           /\ bip_error = ""
           /\ Len(path.comps) = 1 => CoinNodesNamed = {found}
           /\ Len(path.comps) = 2
                 => /\ AccountNodesNamed = {found}
                    /\ \A c \in CoinNodesNamed :
                          master.edges[c][PathAccount + 1] = found
           /\ Len(path.comps) = 3 => BranchNodesNamed = {found}
           /\ Len(path.comps) = 4
                 => /\ AddressNodesNamed = {found}
                    /\ master.id[found] = <<0, PathAddress>>

C14_Witness ==
    /\ bip_pc = "found"
    /\ path = [prefix |-> "m/44'", comps |-> <<"ltc", "1", "xpriv", "1">>]
    /\ Len(config) = 1
    /\ master.id[found] = <<0, 1>>
    /\ master.edges[found] = <<>>

(***************************************************************************)
(* C15.  find_bip44_node_with_path raises an error and returns no node for *)
(* every path that is empty or lacks the m/44' prefix, names an unknown    *)
(* coin, has more components than coin/account/branch/index, or carries an *)
(* account index or an address index outside the range that exists in the  *)
(* tree (index < 0, or index >= the number of accounts / addresses).       *)
(***************************************************************************)
PathOutsideConfig ==
    \/ path.prefix # "m/44'"
    \/ path.comps # <<>> /\ ~PathConfigured
    \/ Len(path.comps) > 4
    \/ PathConfigured /\ PathHasAccount /\ ~AccountInRange
    \/ /\ PathConfigured /\ PathHasAccount /\ AccountInRange
       /\ PathHasBranch /\ PathHasAddress /\ ~AddressInRange

C15_BadPathsRejected ==
    (bip_pc \in {"found", "not_found"} /\ PathOutsideConfig)
        => /\ bip_pc = "not_found"
           /\ bip_error # ""
           /\ found = 0

(***************************************************************************)
(* Vocabulary of termination.                                              *)
(***************************************************************************)
\* the call is inside DHKA.keygen
DHKARunning == pc \in {"dhka_while", "dhka_for"}

\* a call that is inside DHKA.keygen leaves it
KeygenTerminates == DHKARunning ~> ~DHKARunning

\* on a graph with a directed cycle that can be reached from the root,
\* DHKA.keygen is left by 'The poset is not a tree.'
CycleRejected ==
    ((\E v \in Hier : v \in Below(edges, v))
        /\ calls >= 1 /\ ~DHKARunning /\ error # SeedLength)
        => (pc = "failed" /\ error = NotATree)

(***************************************************************************)
(* C21.  DHKA.keygen terminates on every finite graph reachable from root, *)
(* and on every graph that contains a directed cycle reachable from root   *)
(* (a self-loop and an edge back to the root included) it terminates with  *)
(* the assertion 'The poset is not a tree.', neither looping nor returning *)
(* normally.                                                               *)
(***************************************************************************)
C21_TerminatesRejectingCycles == KeygenTerminates /\ []CycleRejected

(***************************************************************************)
(* Vocabulary of the second call.                                          *)
(***************************************************************************)
\* a second DHKA.keygen on a tree with a child under the root, on which the
\* first DHKA.keygen returned
SecondDHKACall ==
    /\ cls = "DHKA"
    /\ calls = 2
    /\ Tree
    /\ edges[root] # <<>>
    /\ prev.pc = "done"

(***************************************************************************)
(* C22.  keygen cannot be run again on the same hierarchy object: after a  *)
(* DHKA.keygen that returned on a tree whose root has at least one child,  *)
(* a second DHKA.keygen on that object, with any seed, fails at the length *)
(* assertion for the root, because encrypted_edges is appended to and      *)
(* never reset: len(root.encrypted_edges) == 2 * len(root.edges).  The     *)
(* call never gets past the root.                                          *)
(***************************************************************************)
C22_SecondCallFailsAtRoot ==
    SecondDHKACall
        => /\ pc # "done"
           /\ pc # "idle" => (u = root /\ dequeues[root] <= 1)
           /\ \A v \in Hier \ {root} : dequeues[v] = 0
           /\ pc = "failed"
                 => /\ error = LengthMismatch
                    /\ u = root
                    /\ Len(encrypted_edges[root]) = 2 * Len(edges[root])
                    /\ Len(prev.encrypted_edges[root]) = Len(edges[root])

C22_Witness ==
    /\ SecondDHKACall
    /\ pc = "failed"
    /\ Len(edges[root]) = 2
    /\ seed # prev.seed
    /\ Len(encrypted_edges[root]) = 4

SiblingsOfOneId(v, w) ==
    /\ v # w
    /\ id[v] = id[w]
    /\ \E p \in Hier : \E j, k \in ChildIndexes(p) :
          edges[p][j] = v /\ edges[p][k] = w

\* the (key, message) pairs prf_f is called with for the tuple of v
PRFCalls(v) ==
    { << IF v = root THEN DHKASeed ELSE secret[ParentOf(v)],
         PRF_SECRET_PREFIX \o label[v] >>,
      << secret[v], PRF_ENCRYPTION_PREFIX \o label[v] >>,
      << secret[v], PRF_PRIVATE_KEY_PREFIX \o label[v] >> }

\* the byte strings that were hashed for the tuple v holds
Hashed(v) == { secret[v][1].a, encryption_key[v][1].a, key[v][1].a }

(***************************************************************************)
(* C24.  DHKA.keygen on its own does not enforce the uniqueness of sibling *)
(* ids: on a tree in which two children of one parent share an id it       *)
(* returns normally, and those two siblings end with the same label,       *)
(* secret, encryption_key and private key; conversely, in a tree with      *)
(* pairwise-distinct sibling ids no two distinct nodes are derived from    *)
(* the same (PRF key, PRF message) input, and no two hold the same secret, *)
(* encryption key or private key.                                          *)
(***************************************************************************)
C24_SiblingIdsDecideDistinctness ==
    /\ (cls = "DHKA" /\ Tree /\ pc \in {"done", "failed"})
          => /\ pc = "done"
             /\ \A v, w \in Hier :
                   SiblingsOfOneId(v, w)
                     => /\ label[v] = label[w]
                        /\ secret[v] = secret[w]
                        /\ encryption_key[v] = encryption_key[w]
                        /\ key[v] = key[w]
                        /\ secret[v] # None
    /\ (Tree /\ DHKAReturned /\ \A p \in Hier : SiblingIdsDistinct(edges, id, p))
          => \A v, w \in Hier :
                v # w => /\ PRFCalls(v) \cap PRFCalls(w) = {}
                         /\ Hashed(v) \cap Hashed(w) = {}
                         /\ secret[v] # secret[w]
                         /\ encryption_key[v] # encryption_key[w]
                         /\ key[v] # key[w]

C24_Witness ==
    /\ cls = "DHKA"
    /\ Tree
    /\ pc = "done"
    /\ size = MaxNodes
    /\ \E v, w \in Hier \ {root} :
          /\ SiblingsOfOneId(v, w)
          /\ edges[v] # <<>>
          /\ key[v] = key[w]

=============================================================================
